---- MODULE Spec2Model ----
(***************************************************************************)
(* Model of src/server.py (the live draft, lines 129-192): a Flask relay   *)
(* with one process-global list `messages` and one handler, chat().        *)
(*                                                                         *)
(* Every access of chat() to the global `messages` is its own step, so     *)
(* that request threads (Flask serves each request on its own thread) can  *)
(* interleave between a read of the global and the operation on the list   *)
(* object that was read.  `messages.append` mutates the list object in     *)
(* place; line 172 builds a NEW list and rebinds the global to it.  A      *)
(* thread that read the global before another thread rebinds it is left    *)
(* holding the old list object: ref[t] = "old", its contents in old[t].    *)
(* With two threads an old list is held by at most one thread, so a        *)
(* private copy is exact.                                                  *)
(*                                                                         *)
(* Strings are sequences of one-character strings, so that startswith and  *)
(* strip are computed and not assumed.                                     *)
(*                                                                         *)
(* History kept for the properties, with no effect on the behaviour: the   *)
(* values line 171-172 evaluated (length, head, tail), the list the        *)
(* service received (ctx), its answer, the number of calls, and raced,     *)
(* stay until the request returns; history is the log of every turn        *)
(* appended, unanswered the user turn of the latest request that called    *)
(* when that call failed.  Spec handles requests one at a time; SpecConc   *)
(* lets them overlap.  The log is read by the properties of Spec alone,    *)
(* and is emptied by the first append after two requests have overlapped.  *)
(***************************************************************************)
EXTENDS Integers, Sequences, FiniteSets, TLC

\* ------------------------------------------------------------ bounds
\* Requests received over the life of the process.
MaxRequests == 5

\* Requests received while another request is in progress (SpecConc).
MaxOverlaps == 1

\* The request threads.
Threads == {1, 2}

\* ------------------------------------------------------------ constants
\* `if len(messages) > 6`
TrimThreshold == 6
\* `messages[-5:]`
KeepLast == 5

\* ------------------------------------------------------------ strings
Whitespace == {" ", "\t", "\n"}

HttpPrefix == <<"h", "t", "t", "p">>

\* The fixed Arabic instruction of the text part (one opaque token).
ImagePrompt == <<"ma-muhtawa-hadhihi-as-sura?">>

\* The fixed Arabic persona of the system turn (one opaque token).
SystemPrompt == <<"anta-sadiq-dhaki">>

\* A test for the prefix anywhere in the string (`p in s`).
Contains(s, p) ==
    \E i \in 0..(Len(s) - Len(p)) : SubSeq(s, i + 1, i + Len(p)) = p

\* str.startswith
StartsWith(s, p) == Len(s) >= Len(p) /\ SubSeq(s, 1, Len(p)) = p

RECURSIVE LStrip(_)
LStrip(s) == IF s # <<>> /\ Head(s) \in Whitespace THEN LStrip(Tail(s)) ELSE s

RECURSIVE RStrip(_)
RStrip(s) ==
    IF s # <<>> /\ s[Len(s)] \in Whitespace
    THEN RStrip(SubSeq(s, 1, Len(s) - 1))
    ELSE s

\* A strip of the left end alone.
StripLeft(s) == LStrip(s)

\* str.strip
Strip(s) == RStrip(LStrip(s))

\* ------------------------------------------------------------ data
\* The value of data.get('message'): None when the field is absent.
NoMessage == [absent |-> TRUE, text |-> <<>>]
Message(s) == [absent |-> FALSE, text |-> s]

\* A check for None alone, which lets the empty string through.
FalsyNoneOnly(in) == in.absent

\* Python truthiness of user_input: None and "" are falsy.
Falsy(in) == in.absent \/ Len(in.text) = 0

\* A content is a plain string or a list of parts.
TextContent(s) == [kind |-> "str", str |-> s, parts |-> <<>>]
TextPart(s) == [type |-> "text", text |-> s, url |-> <<>>]
ImagePart(u) == [type |-> "image_url", text |-> <<>>, url |-> u]
ImageContent(u) ==
    [kind |-> "list", str |-> <<>>, parts |-> <<TextPart(ImagePrompt), ImagePart(u)>>]

\* Lines 159-165.
Classify(s) == IF StartsWith(s, HttpPrefix) THEN ImageContent(s) ELSE TextContent(s)

Turn(r, c) == [role |-> r, content |-> c]
SystemTurn == Turn("system", TextContent(SystemPrompt))

\* ------------------------------------------------------------ inputs
\* The message field of the requests (requests handled one at a time).
Inputs ==
    { NoMessage,
      Message(<<>>),
      Message(<<"h", "t", "t">>),
      Message(<<"h", "t", "t", "p">>),
      Message(<<"x", "h", "t", "t", "p">>) }

\* The message field of request number k (requests handled concurrently):
\* absent, or a text of its own, "m" followed by k times "i", so that the
\* user turns of different requests differ.
ConcInputs(k) ==
    { NoMessage,
      Message(<<"m">> \o [i \in 1..k |-> "i"]) }

\* What the completion service can do: raise, or return a candidate list;
\* a candidate's message content can be None.
Raises == [raises |-> TRUE, choices |-> <<>>]
Returns(cs) == [raises |-> FALSE, choices |-> cs]
Candidate(s) == [none |-> FALSE, content |-> s]
NoneCandidate == [none |-> TRUE, content |-> <<>>]

\* The answers of the service (requests handled one at a time).
Responses ==
    { Raises,
      Returns(<<>>),
      Returns(<<NoneCandidate>>),
      Returns(<<Candidate(<<"\t", "a", " ", "b", "\n">>), Candidate(<<"d">>)>>) }

\* The answers of the service (requests handled concurrently).
ConcResponses ==
    { Raises,
      Returns(<<Candidate(<<"\t", "c", " ">>), Candidate(<<"d">>)>>) }

\* ------------------------------------------------------------ state
VARIABLES
    messages,    \* contents of the list the global `messages` is bound to
    nreq,        \* requests received so far
    pc,          \* per thread: where in chat() it is
    user_input,  \* per thread: local user_input
    content,     \* per thread: local content
    ref,         \* per thread: the list object it has read: "none", "cur", "old"
    old,         \* per thread: contents of the old list object it holds
    head,        \* per thread: the evaluated [messages[0]], kept until it returns
    tail,        \* per thread: the evaluated messages[-5:], kept until it returns
    length,      \* per thread: the evaluated len(messages) of line 171
    answer,      \* per thread: what the completion service answered, if it has
    bot_reply,   \* per thread: local bot_reply
    resp,        \* per thread: the HTTP response of the request
    ctx,         \* per thread: the `messages=` argument as the service received it
    calls,       \* per thread: completion calls made by the current request
    raced,       \* per thread: another thread rebound the global under this request
    overlaps,    \* requests received so far while another was in progress
    history,     \* every user and assistant turn appended so far, in append order,
                 \* for as long as no request arrived while another was in progress
    unanswered   \* the user turn of the latest request that called, if that call failed

vars ==
    <<messages, nreq, pc, user_input, content, ref, old, head, tail,
      length, answer, bot_reply, resp, ctx, calls, raced, overlaps, history,
      unanswered>>

NoResp == [status |-> 0, key |-> "none", body |-> <<>>]
ErrorResp(code, msg) == [status |-> code, key |-> "error", body |-> msg]
ReplyResp(s) == [status |-> 200, key |-> "reply", body |-> s]

Init ==
    /\ messages = <<SystemTurn>>
    /\ nreq = 0
    /\ pc = [t \in Threads |-> "idle"]
    /\ user_input = [t \in Threads |-> NoMessage]
    /\ content = [t \in Threads |-> TextContent(<<>>)]
    /\ ref = [t \in Threads |-> "none"]
    /\ old = [t \in Threads |-> <<>>]
    /\ head = [t \in Threads |-> <<>>]
    /\ tail = [t \in Threads |-> <<>>]
    /\ length = [t \in Threads |-> 0]
    /\ answer = [t \in Threads |-> <<>>]
    /\ bot_reply = [t \in Threads |-> <<>>]
    /\ resp = [t \in Threads |-> NoResp]
    /\ ctx = [t \in Threads |-> <<>>]
    /\ calls = [t \in Threads |-> 0]
    /\ raced = [t \in Threads |-> FALSE]
    /\ overlaps = 0
    /\ history = <<>>
    /\ unanswered = <<>>

\* ------------------------------------------------------------ list objects
\* The contents of the list object thread t holds a reference to.
Deref(t) == IF ref[t] = "cur" THEN messages ELSE old[t]

\* LOAD_GLOBAL messages: t now holds the list the global is bound to.
LoadGlobal(t, from, to) ==
    /\ pc[t] = from
    /\ pc' = [pc EXCEPT ![t] = to]
    /\ ref' = [ref EXCEPT ![t] = "cur"]
    /\ UNCHANGED <<messages, nreq, user_input, content, old, head, tail,
                   bot_reply, resp, ctx, calls, raced, overlaps, length,
                   answer, history, unanswered>>

\* list.append on the object t holds; the reference is dropped afterwards.
\* An append to an old list object is seen by nobody.
AppendHeld(t, turn) ==
    /\ messages' = IF ref[t] = "cur" THEN Append(messages, turn) ELSE messages
    /\ ref' = [ref EXCEPT ![t] = "none"]
    /\ old' = [old EXCEPT ![t] = <<>>]
    /\ history' = IF overlaps = 0 THEN Append(history, turn) ELSE <<>>

\* t drops the reference it holds.
Drop(t) ==
    /\ ref' = [ref EXCEPT ![t] = "none"]
    /\ old' = [old EXCEPT ![t] = <<>>]

\* A slice that starts one turn too early.
LastSliceSix(l) ==
    IF Len(l) <= KeepLast + 1 THEN l ELSE SubSeq(l, Len(l) - KeepLast, Len(l))

\* A slice that starts one turn too late.
LastSliceFour(l) ==
    IF Len(l) <= KeepLast - 1 THEN l ELSE SubSeq(l, Len(l) - KeepLast + 2, Len(l))

\* A slice of the five turns after turn 0 (messages[1:6]).
FirstSlice(l) == SubSeq(l, 2, IF Len(l) < KeepLast + 1 THEN Len(l) ELSE KeepLast + 1)

\* A slice of the last turn alone (messages[-1:]).
LastSliceOne(l) == SubSeq(l, Len(l), Len(l))

\* A slice that ends one turn too early (messages[-6:-1]).
LastSliceShifted(l) ==
    IF Len(l) <= KeepLast THEN l ELSE SubSeq(l, Len(l) - KeepLast, Len(l) - 1)

\* messages[-5:] of a list l.
LastSlice(l) ==
    IF Len(l) <= KeepLast THEN l ELSE SubSeq(l, Len(l) - KeepLast + 1, Len(l))

\* ------------------------------------------------------------ chat()
AllIdle == \A u \in Threads : pc[u] = "idle"

\* Each request is served on a thread of its own: which one is immaterial,
\* so a request takes the first thread that serves none.
FreeSlot(t) == pc[t] = "idle" /\ \A u \in Threads : u < t => pc[u] # "idle"

\* Lines 152-156: the message is absent or empty: 400, nothing else.
Reject(t, in) ==
    /\ nreq < MaxRequests
    /\ FreeSlot(t)
    /\ AllIdle \/ overlaps < MaxOverlaps
    /\ overlaps' = IF AllIdle THEN overlaps ELSE overlaps + 1
    /\ Falsy(in)
    /\ nreq' = nreq + 1
    /\ user_input' = [user_input EXCEPT ![t] = in]
    /\ pc' = [pc EXCEPT ![t] = "done"]
    /\ resp' = [resp EXCEPT ![t] = ErrorResp(400, <<"No message provided">>)]
    /\ UNCHANGED <<messages, content, ref, old, head, tail, bot_reply, ctx,
                   calls, raced, length, answer, history, unanswered>>

\* Lines 152-165: the message is there; content is classified.
Accept(t, in) ==
    /\ nreq < MaxRequests
    /\ FreeSlot(t)
    /\ AllIdle \/ overlaps < MaxOverlaps
    /\ overlaps' = IF AllIdle THEN overlaps ELSE overlaps + 1
    /\ ~Falsy(in)
    /\ nreq' = nreq + 1
    /\ user_input' = [user_input EXCEPT ![t] = in]
    /\ content' = [content EXCEPT ![t] = Classify(in.text)]
    /\ pc' = [pc EXCEPT ![t] = "L168"]
    /\ UNCHANGED <<messages, ref, old, head, tail, bot_reply, resp, ctx,
                   calls, raced, length, answer, history, unanswered>>

\* Line 168: messages.append({"role": "user", "content": content})
LoadForUser(t) == LoadGlobal(t, "L168", "L168a")

AppendUser(t) ==
    /\ pc[t] = "L168a"
    /\ AppendHeld(t, Turn("user", content[t]))
    /\ pc' = [pc EXCEPT ![t] = "L171"]
    /\ UNCHANGED <<nreq, user_input, content, head, tail, bot_reply, resp,
                   ctx, calls, raced, overlaps, length, answer, unanswered>>

\* Line 171: if len(messages) > 6
LoadForLen(t) == LoadGlobal(t, "L171", "L171a")

\* A threshold that is off by one.
NeedsTrimLate(l) == Len(l) > TrimThreshold + 1

\* A threshold that is off by one the other way.
NeedsTrimEarly(l) == Len(l) > TrimThreshold - 1

NeedsTrim(l) == Len(l) > TrimThreshold

CheckLen(t) ==
    /\ pc[t] = "L171a"
    /\ pc' = [pc EXCEPT ![t] = IF NeedsTrim(Deref(t)) THEN "L172" ELSE "L177"]
    /\ length' = [length EXCEPT ![t] = Len(Deref(t))]
    /\ Drop(t)
    /\ UNCHANGED <<messages, nreq, user_input, content, head, tail, bot_reply,
                   resp, ctx, calls, raced, overlaps, answer,
                   history, unanswered>>

\* Line 172: messages = [messages[0]] + messages[-5:]
LoadForHead(t) == LoadGlobal(t, "L172", "L172a")

TrimHead(t) ==
    /\ pc[t] = "L172a"
    /\ head' = [head EXCEPT ![t] = <<Deref(t)[1]>>]
    /\ Drop(t)
    /\ pc' = [pc EXCEPT ![t] = "L172b"]
    /\ UNCHANGED <<messages, nreq, user_input, content, tail, bot_reply, resp,
                   ctx, calls, raced, overlaps, length, answer,
                   history, unanswered>>

LoadForTail(t) == LoadGlobal(t, "L172b", "L172c")

TrimTail(t) ==
    /\ pc[t] = "L172c"
    /\ tail' = [tail EXCEPT ![t] = LastSlice(Deref(t))]
    /\ Drop(t)
    /\ pc' = [pc EXCEPT ![t] = "L172d"]
    /\ UNCHANGED <<messages, nreq, user_input, content, head, bot_reply, resp,
                   ctx, calls, raced, overlaps, length, answer,
                   history, unanswered>>

\* Where a request is between reading the global for its user turn's append
\* (line 168) and reading it for the call (line 177).
UserTurnAtRisk ==
    {"L168a", "L171", "L171a", "L172", "L172a", "L172b", "L172c", "L172d", "L177"}

\* A trim that keeps the last turns alone.
TrimmedTailOnly(h, tl) == tl

\* The list line 172 binds the global to.
Trimmed(h, tl) == h \o tl

\* A store that binds a name local to chat(): the global keeps its list.
TrimStoreLocal(t) ==
    /\ pc[t] = "L172d"
    /\ pc' = [pc EXCEPT ![t] = "L177"]
    /\ UNCHANGED <<messages, nreq, head, tail, user_input, content, bot_reply,
                   resp, ctx, calls, overlaps, length, answer, ref, old, raced,
                   history, unanswered>>

\* The store rebinds the global: every other thread that holds the list the
\* global was bound to is left with the old object.
TrimStore(t) ==
    /\ pc[t] = "L172d"
    /\ messages' = Trimmed(head[t], tail[t])
    /\ ref' = [u \in Threads |-> IF u # t /\ ref[u] = "cur" THEN "old" ELSE ref[u]]
    /\ old' = [u \in Threads |-> IF u # t /\ ref[u] = "cur" THEN messages ELSE old[u]]
    /\ pc' = [pc EXCEPT ![t] = "L177"]
    /\ raced' = [u \in Threads |-> raced[u] \/ (u # t /\ pc[u] \in UserTurnAtRisk)]
    /\ UNCHANGED <<nreq, head, tail, user_input, content, bot_reply, resp,
                   ctx, calls, overlaps, length, answer, history, unanswered>>

\* Lines 175-181: client.chat.completions.create(messages=messages, ...)
LoadForCall(t) == LoadGlobal(t, "L177", "L177a")

\* A call that hands over the turns after turn 0 alone.
SendWithoutSystem(t) ==
    /\ pc[t] = "L177a"
    /\ ctx' = [ctx EXCEPT ![t] = Tail(Deref(t))]
    /\ calls' = [calls EXCEPT ![t] = @ + 1]
    /\ Drop(t)
    /\ pc' = [pc EXCEPT ![t] = "L175"]
    /\ UNCHANGED <<messages, nreq, user_input, content, head, tail, bot_reply,
                   resp, raced, overlaps, length, answer, history, unanswered>>

\* The request goes out: the service receives the list as it is now.
Send(t) ==
    /\ pc[t] = "L177a"
    /\ ctx' = [ctx EXCEPT ![t] = Deref(t)]
    /\ calls' = [calls EXCEPT ![t] = @ + 1]
    /\ Drop(t)
    /\ pc' = [pc EXCEPT ![t] = "L175"]
    /\ UNCHANGED <<messages, nreq, user_input, content, head, tail, bot_reply,
                   resp, raced, overlaps, length, answer, history, unanswered>>

\* A try block that takes a missing content for an empty reply.
ExtractNoneAsEmpty(r) ==
    IF r.raises THEN [ok |-> FALSE, reply |-> <<>>, error |-> <<"APIError">>]
    ELSE IF Len(r.choices) = 0
    THEN [ok |-> FALSE, reply |-> <<>>, error |-> <<"IndexError">>]
    ELSE [ok |-> TRUE, reply |-> Strip(r.choices[1].content), error |-> <<>>]

\* Lines 175-183 and 188: what the try block makes of the service's answer:
\* create() raises, choices[0] raises IndexError, None.strip() raises
\* AttributeError, or bot_reply is the first candidate's content, stripped.
Extract(r) ==
    IF r.raises THEN [ok |-> FALSE, reply |-> <<>>, error |-> <<"APIError">>]
    ELSE IF Len(r.choices) = 0
    THEN [ok |-> FALSE, reply |-> <<>>, error |-> <<"IndexError">>]
    ELSE IF r.choices[1].none
    THEN [ok |-> FALSE, reply |-> <<>>, error |-> <<"AttributeError">>]
    ELSE [ok |-> TRUE, reply |-> Strip(r.choices[1].content), error |-> <<>>]

\* Lines 175-183: the call returned and bot_reply is set.
Reply(t, r) ==
    /\ pc[t] = "L175"
    /\ Extract(r).ok
    /\ bot_reply' = [bot_reply EXCEPT ![t] = Extract(r).reply]
    /\ answer' = [answer EXCEPT ![t] = <<r>>]
    /\ pc' = [pc EXCEPT ![t] = "L184"]
    /\ UNCHANGED <<messages, nreq, user_input, content, ref, old, head, tail,
                   resp, ctx, calls, raced, overlaps, length,
                   history, unanswered>>

\* A handler that takes the user turn back when the call fails.
FailRollback(t, r) ==
    /\ pc[t] = "L175"
    /\ ~Extract(r).ok
    /\ messages' = SubSeq(messages, 1, Len(messages) - 1)
    /\ resp' = [resp EXCEPT ![t] = ErrorResp(500, Extract(r).error)]
    /\ answer' = [answer EXCEPT ![t] = <<r>>]
    /\ pc' = [pc EXCEPT ![t] = "done"]
    /\ unanswered' = <<Turn("user", content[t])>>
    /\ UNCHANGED <<nreq, user_input, content, ref, old, head, tail, bot_reply,
                   ctx, calls, raced, overlaps, length, history>>

\* A handler that calls again when the call fails.
FailRetry(t, r) ==
    /\ pc[t] = "L175"
    /\ ~Extract(r).ok
    /\ calls[t] < 2
    /\ answer' = [answer EXCEPT ![t] = <<r>>]
    /\ pc' = [pc EXCEPT ![t] = "L177"]
    /\ UNCHANGED <<messages, nreq, user_input, content, ref, old, head, tail,
                   bot_reply, resp, ctx, calls, raced, overlaps, length,
                   history, unanswered>>

\* Lines 188-189: an exception in the try block: 500 with str(e).
Fail(t, r) ==
    /\ pc[t] = "L175"
    /\ ~Extract(r).ok
    /\ resp' = [resp EXCEPT ![t] = ErrorResp(500, Extract(r).error)]
    /\ answer' = [answer EXCEPT ![t] = <<r>>]
    /\ pc' = [pc EXCEPT ![t] = "done"]
    /\ unanswered' = <<Turn("user", content[t])>>
    /\ UNCHANGED <<messages, nreq, user_input, content, ref, old, head, tail,
                   bot_reply, ctx, calls, raced, overlaps, length, history>>

\* Line 184: messages.append({"role": "assistant", "content": bot_reply})
LoadForAssistant(t) == LoadGlobal(t, "L184", "L184a")

\* Lines 184-186: the append, then the 200 response.
AppendAssistant(t) ==
    /\ pc[t] = "L184a"
    /\ AppendHeld(t, Turn("assistant", TextContent(bot_reply[t])))
    /\ resp' = [resp EXCEPT ![t] = ReplyResp(bot_reply[t])]
    /\ pc' = [pc EXCEPT ![t] = "done"]
    /\ unanswered' = <<>>
    /\ UNCHANGED <<nreq, user_input, content, head, tail, bot_reply, ctx,
                   calls, raced, overlaps, length, answer>>

\* The response is delivered and the thread's locals are gone.
Return(t) ==
    /\ pc[t] = "done"
    /\ pc' = [pc EXCEPT ![t] = "idle"]
    /\ user_input' = [user_input EXCEPT ![t] = NoMessage]
    /\ content' = [content EXCEPT ![t] = TextContent(<<>>)]
    /\ bot_reply' = [bot_reply EXCEPT ![t] = <<>>]
    /\ resp' = [resp EXCEPT ![t] = NoResp]
    /\ ctx' = [ctx EXCEPT ![t] = <<>>]
    /\ calls' = [calls EXCEPT ![t] = 0]
    /\ raced' = [raced EXCEPT ![t] = FALSE]
    /\ head' = [head EXCEPT ![t] = <<>>]
    /\ tail' = [tail EXCEPT ![t] = <<>>]
    /\ length' = [length EXCEPT ![t] = 0]
    /\ answer' = [answer EXCEPT ![t] = <<>>]
    /\ UNCHANGED <<messages, nreq, ref, old, overlaps, history, unanswered>>

\* ------------------------------------------------------------ specifications
\* A request in progress takes its next step.
Step(t) ==
    \/ LoadForUser(t)
    \/ AppendUser(t)
    \/ LoadForLen(t)
    \/ CheckLen(t)
    \/ LoadForHead(t)
    \/ TrimHead(t)
    \/ LoadForTail(t)
    \/ TrimTail(t)
    \/ TrimStore(t)
    \/ LoadForCall(t)
    \/ Send(t)
    \/ LoadForAssistant(t)
    \/ AppendAssistant(t)
    \/ Return(t)

\* A request that arrives when no other is in progress.
RejectAlone(t, in) == AllIdle /\ Reject(t, in)
AcceptAlone(t, in) == AllIdle /\ Accept(t, in)

\* Requests handled one at a time.
Next ==
    \E t \in Threads :
        \/ \E in \in Inputs : RejectAlone(t, in) \/ AcceptAlone(t, in)
        \/ \E r \in Responses : Reply(t, r) \/ Fail(t, r)
        \/ Step(t)

Spec == Init /\ [][Next]_vars

\* The messages of all the requests handled concurrently.
AllConcInputs == UNION {ConcInputs(k) : k \in 1..MaxRequests}

\* The next request that arrives, with a message of its own.
RejectNext(t, in) == in \in ConcInputs(nreq + 1) /\ Reject(t, in)
AcceptNext(t, in) == in \in ConcInputs(nreq + 1) /\ Accept(t, in)

\* Requests handled concurrently, one thread each; at most MaxOverlaps
\* requests arrive while another is in progress.
NextConc ==
    \E t \in Threads :
        \/ \E in \in AllConcInputs : RejectNext(t, in) \/ AcceptNext(t, in)
        \/ \E r \in ConcResponses : Reply(t, r) \/ Fail(t, r)
        \/ Step(t)

SpecConc == Init /\ [][NextConc]_vars

\* ------------------------------------------------------------ vocabulary
Last(l) == l[Len(l)]

\* The response of t's request is ready: t is about to return it.
Responded(t, code) == pc[t] = "done" /\ resp[t].status = code

\* The message field of a request is absent or empty.
MissingInput(in) == in.absent \/ in.text = <<>>

\* ------------------------------------------------------------ C1
\* C1: a request whose message field is absent or empty is answered 400 with
\* an error body in the step that receives it, that step leaves the
\* transcript as it was, and the request never calls the completion service.
C1_MissingInputRejected ==
    [][\A t \in Threads :
          (pc[t] = "idle" /\ pc'[t] # "idle" /\ MissingInput(user_input'[t]))
              => /\ pc'[t] = "done"
                 /\ resp'[t].status = 400
                 /\ resp'[t].key = "error"
                 /\ messages' = messages
                 /\ calls'[t] = 0
                 /\ ctx'[t] = <<>>]_vars

\* A request with an empty message was rejected on a transcript that three
\* earlier requests had grown.
C1_Witness ==
    \E t \in Threads :
        /\ Responded(t, 400)
        /\ ~user_input[t].absent
        /\ user_input[t].text = <<>>
        /\ Len(messages) = 7

\* The roles of the turns of a transcript.
Roles(l) == [i \in 1..Len(l) |-> l[i].role]

\* ------------------------------------------------------------ C2
\* C2: when the completion call of a request fails, the response is a 500
\* with an error body, and the transcript is the one the service was handed:
\* its last turn is the request's user turn and no assistant turn follows.
C2_FailureKeepsUserTurn ==
    \A t \in Threads :
        Responded(t, 500)
            => /\ resp[t].key = "error"
               /\ resp[t].body # <<>>
               /\ Last(messages) = Turn("user", content[t])
               /\ messages = ctx[t]

\* A request that trimmed the transcript and then failed at the call.
C2_Witness ==
    \E t \in Threads :
        /\ Responded(t, 500)
        /\ length[t] > 6
        /\ Last(messages) = Turn("user", content[t])

\* ------------------------------------------------------------ C3
\* C3: with requests handled one at a time, the transcript has at most 6
\* turns once the trim step of a request is over, and so has the list handed
\* to the completion service.
C3_WindowAfterTrim ==
    \A t \in Threads :
        /\ pc[t] \in {"L177", "L177a"} => Len(messages) <= 6
        /\ calls[t] > 0 => Len(ctx[t]) <= 6

\* The fourth of four successful turns has just trimmed 8 turns to 6.
C3_Witness ==
    \E t \in Threads :
        /\ pc[t] = "L177"
        /\ length[t] = 8
        /\ Len(messages) = 6
        /\ Roles(messages) = <<"system", "user", "assistant", "user", "assistant", "user">>

\* ------------------------------------------------------------ C4
\* C4: in every reachable state, whatever requests were handled and however
\* two of them interleaved, the transcript is not empty and its turn 0 is
\* the system turn created at process start, role and content unchanged.
C4_SystemTurnFirst ==
    /\ Len(messages) >= 1
    /\ messages[1] = SystemTurn
    /\ messages[1].role = "system"

\* A trim has rebuilt the list and a later turn was appended to the new one.
C4_Witness ==
    \E t \in Threads :
        /\ pc[t] = "done"
        /\ length[t] > 6
        /\ head[t] = <<SystemTurn>>
        /\ Len(messages) = 7
        /\ messages[1] = SystemTurn

\* ------------------------------------------------------------ C5
\* C5: with requests handled one at a time, the trim step (lines 171-172)
\* is entered exactly when the transcript has more than 6 turns; it replaces
\* the transcript by turn 0 followed by the last 5 turns in their order, so
\* that [S, t1, .., t6] becomes [S, t2, .., t6]; a transcript of at most 6
\* turns passes the step unchanged.
C5_TrimCorrect ==
    [][\A t \in Threads :
          /\ (pc[t] = "L171a" /\ pc'[t] = "L177")
                 => Len(messages) <= 6 /\ messages' = messages
          /\ (pc[t] = "L171a" /\ pc'[t] = "L172")
                 => Len(messages) > 6 /\ messages' = messages
          /\ (pc[t] \in {"L172", "L172a", "L172b", "L172c"} /\ pc'[t] # pc[t])
                 => messages' = messages
          /\ (pc[t] = "L172d" /\ pc'[t] = "L177")
                 => /\ Len(messages) > 6
                    /\ Len(messages') = 6
                    /\ messages'[1] = messages[1]
                    /\ \A i \in 1..5 : messages'[1 + i] = messages[Len(messages) - 5 + i]
                    /\ Len(messages) = 7
                           => messages' = <<messages[1], messages[3], messages[4],
                                            messages[5], messages[6], messages[7]>>]_vars

\* A transcript of 7 turns has just been trimmed.
C5_Witness ==
    \E t \in Threads :
        /\ pc[t] = "L177"
        /\ length[t] = 7
        /\ head[t] = <<SystemTurn>>
        /\ Len(tail[t]) = 5
        /\ messages = head[t] \o tail[t]

\* b is raw without its leading and trailing whitespace.
IsStripOf(b, raw) ==
    \E i, j \in 0..Len(raw) :
        /\ i + j <= Len(raw)
        /\ b = SubSeq(raw, i + 1, Len(raw) - j)
        /\ \A k \in 1..i : raw[k] \in Whitespace
        /\ \A k \in (Len(raw) - j + 1)..Len(raw) : raw[k] \in Whitespace
        /\ b = <<>> \/ (b[1] \notin Whitespace /\ b[Len(b)] \notin Whitespace)

\* The service answered t's call with a reply text (a first candidate that
\* has content).
GotText(t) ==
    /\ answer[t] # <<>>
    /\ ~answer[t][1].raises
    /\ answer[t][1].choices # <<>>
    /\ ~answer[t][1].choices[1].none

\* The reply text the service answered t's call with.
RawText(t) == answer[t][1].choices[1].content

\* ------------------------------------------------------------ C6
\* C6: once the service has returned a reply text, the request goes on to
\* answer 200 with that text less its leading and trailing whitespace, and
\* its response finds the transcript to be the list handed to the service
\* plus one assistant turn with that same stripped text; the first request
\* of a process, when successful, leaves [system, user, assistant].
C6_SuccessPath ==
    \A t \in Threads :
        /\ GotText(t) =>
               \/ pc[t] \in {"L184", "L184a"} /\ IsStripOf(bot_reply[t], RawText(t))
               \/ Responded(t, 200)
        /\ Responded(t, 200) =>
               /\ GotText(t)
               /\ resp[t].key = "reply"
               /\ IsStripOf(resp[t].body, RawText(t))
               /\ messages = Append(ctx[t], Turn("assistant", TextContent(resp[t].body)))
               /\ nreq = 1 =>
                      messages = <<SystemTurn,
                                   Turn("user", content[t]),
                                   Turn("assistant", TextContent(resp[t].body))>>
               /\ (nreq = 1 /\ content[t].kind = "str") =>
                      messages[2].content.str = user_input[t].text

\* The first request of the process, a text message, answered with a reply
\* that has whitespace at both ends and inside.
C6_Witness ==
    \E t \in Threads :
        /\ Responded(t, 200)
        /\ nreq = 1
        /\ content[t].kind = "str"
        /\ RawText(t) = <<"\t", "a", " ", "b", "\n">>
        /\ resp[t].body = <<"a", " ", "b">>
        /\ Len(messages) = 3

\* s begins with the four characters h, t, t, p.
HasHttpPrefix(s) ==
    Len(s) >= 4 /\ s[1] = "h" /\ s[2] = "t" /\ s[3] = "t" /\ s[4] = "p"

\* c is what the claim expects for the message s.
ExpectedContent(c, s) ==
    IF HasHttpPrefix(s)
    THEN /\ c.kind = "list"
         /\ Len(c.parts) = 2
         /\ c.parts[1].type = "text"
         /\ c.parts[1].text = ImagePrompt
         /\ c.parts[2].type = "image_url"
         /\ c.parts[2].url = s
    ELSE /\ c.kind = "str"
         /\ c.str = s

\* ------------------------------------------------------------ C7
\* C7: the user turn a request appends, and the completion service receives
\* as the last turn, holds for a message that starts with "http" exactly two
\* parts, the fixed instruction as text and then the message itself as the
\* image URL, and for any other non-empty message the message itself.
C7_Classification ==
    \A t \in Threads :
        /\ pc[t] = "L171" =>
               /\ Last(messages).role = "user"
               /\ ExpectedContent(Last(messages).content, user_input[t].text)
        /\ calls[t] > 0 =>
               /\ Last(ctx[t]).role = "user"
               /\ ExpectedContent(Last(ctx[t]).content, user_input[t].text)

\* The service received an image message as the last turn, after a text
\* message that holds "http" but does not start with it.
C7_Witness ==
    \E t \in Threads :
        /\ calls[t] > 0
        /\ user_input[t].text = <<"h", "t", "t", "p">>
        /\ Last(ctx[t]).content.kind = "list"
        /\ \E i \in 1..Len(ctx[t]) :
               ctx[t][i] = Turn("user", TextContent(<<"x", "h", "t", "t", "p">>))

\* Thread t found more than 6 turns at line 171 and has finished line 172.
JustTrimmed(t) == pc[t] \in {"L177", "L177a"} /\ length[t] > 6

\* ------------------------------------------------------------ C8
\* C8 as stated: whenever the transcript has more than 6 turns after the
\* user turn is appended, the trim step leaves exactly 2 turns.
C8_CollapsesToTwo ==
    \A t \in Threads : JustTrimmed(t) => Len(messages) = 2

\* C8 as amended: whenever the transcript has more than 6 turns after the
\* user turn is appended, the trim step (requests handled one at a time)
\* leaves exactly 6 turns: turn 0 and the 5 most recent turns, the last of
\* them the user turn just appended.
C8_CollapsesToSix ==
    \A t \in Threads :
        JustTrimmed(t) =>
            /\ Len(messages) = 6
            /\ messages[1] = SystemTurn
            /\ Last(messages) = Turn("user", content[t])

\* A request has trimmed a transcript of 8 turns.
C8_Witness ==
    \E t \in Threads : JustTrimmed(t) /\ length[t] = 8 /\ Len(messages) = 6

\* Where the request of thread t stands in the spec's per-request machine.
\* Pending runs from the append of the user turn to the answer of the call;
\* "completing" is the step from the answer to the append of the assistant
\* turn, which makes the request Completed.
Phase(p, status) ==
    CASE p = "idle" -> "none"
      [] p \in {"L168", "L168a"} -> "accepted"
      [] p \in {"L171", "L171a", "L172", "L172a", "L172b", "L172c", "L172d",
                "L177", "L177a", "L175"} -> "pending"
      [] p \in {"L184", "L184a"} -> "completing"
      [] p = "done" /\ status = 200 -> "completed"
      [] p = "done" /\ status = 500 -> "failed"
      [] p = "done" /\ status = 400 -> "rejected"
      [] OTHER -> "unknown"

PhaseMoves ==
    { <<"none", "accepted">>, <<"none", "rejected">>, <<"accepted", "pending">>,
      <<"pending", "completing">>, <<"pending", "failed">>,
      <<"completing", "completed">>,
      <<"completed", "none">>, <<"failed", "none">>, <<"rejected", "none">> }

\* ------------------------------------------------------------ C9
\* C9: a request that passes validation is Pending, then Completed or
\* Failed, and nothing else: it calls the completion service once, it ends
\* with the assistant turn appended and the reply returned or with an error
\* and no assistant turn, and a Failed request only returns: it is not
\* called again and does not become Pending again.
C9_RequestMachine ==
    /\ [](\A t \in Threads :
             /\ calls[t] \in {0, 1}
             /\ Phase(pc[t], resp[t].status) # "unknown"
             /\ Phase(pc[t], resp[t].status) \in {"none", "accepted", "rejected"}
                    => calls[t] = 0
             /\ pc[t] = "L175" => calls[t] = 1
             /\ Phase(pc[t], resp[t].status) \in {"completing", "completed", "failed"}
                    => calls[t] = 1 /\ ~MissingInput(user_input[t])
             /\ Phase(pc[t], resp[t].status) = "completed"
                    => /\ resp[t].key = "reply"
                       /\ Last(messages) = Turn("assistant", TextContent(resp[t].body))
             /\ Phase(pc[t], resp[t].status) = "failed"
                    => /\ resp[t].key = "error"
                       /\ Last(messages).role = "user")
    /\ [][\A t \in Threads :
             /\ \/ Phase(pc[t], resp[t].status) = Phase(pc'[t], resp'[t].status)
                \/ <<Phase(pc[t], resp[t].status), Phase(pc'[t], resp'[t].status)>>
                       \in PhaseMoves
             /\ pc'[t] # "idle" => calls'[t] >= calls[t]
             /\ (pc[t] = "done" /\ pc'[t] = "done") => resp'[t] = resp[t]
             /\ (pc[t] = "done" /\ pc'[t] # "done")
                    => pc'[t] = "idle" /\ messages' = messages]_vars

\* A request has Failed after an earlier one Completed.
C9_Witness ==
    \E t \in Threads :
        /\ Phase(pc[t], resp[t].status) = "failed"
        /\ calls[t] = 1
        /\ \E i \in 1..Len(messages) : messages[i].role = "assistant"

\* The user turn of the request thread t serves.
OwnTurn(t) == Turn("user", content[t])

\* l holds the turn x.
Holds(l, x) == \E i \in 1..Len(l) : l[i] = x

\* The completion service was called for t's request with a list that does
\* not hold the request's own user turn.
LostUserTurn(t) == calls[t] > 0 /\ ~Holds(ctx[t], OwnTurn(t))

\* t has appended its assistant turn, and the turn before it is not its own
\* user turn.
OutOfOrder(t) ==
    /\ Responded(t, 200)
    /\ Len(messages) >= 2
    /\ Last(messages) = Turn("assistant", TextContent(resp[t].body))
    /\ messages[Len(messages) - 1] # OwnTurn(t)

\* ------------------------------------------------------------ C10
\* C10: with two requests running concurrently, a request's user turn is
\* missing from the list its call is made with only after a store of line
\* 172 that came between that request's read of the global for its append
\* and its read for the call: the other request's store, or its own after
\* the other request appended behind it; when the request itself did not
\* trim, it was the other request's store.  As long as no request has
\* arrived while another was in progress, no user turn is lost and every
\* assistant turn directly follows its own user turn.  (That both do happen
\* is C10_Witness.)
C10_LossNeedsOtherTrim ==
    \A t \in Threads :
        /\ LostUserTurn(t) => overlaps > 0 /\ (raced[t] \/ length[t] > 6)
        /\ overlaps = 0 => ~LostUserTurn(t) /\ ~OutOfOrder(t)
        /\ (overlaps = 0 /\ Responded(t, 200)) =>
               /\ Last(messages) = Turn("assistant", TextContent(resp[t].body))
               /\ messages[Len(messages) - 1] = OwnTurn(t)

\* Two requests have interleaved: the call of one, which did not trim, was
\* made without its own user turn, which the trim of the other dropped, and
\* the assistant turn of the other does not directly follow that one's user
\* turn, which the transcript still holds.
C10_Witness ==
    \E t, u \in Threads :
        /\ t # u
        /\ LostUserTurn(u)
        /\ raced[u]
        /\ length[u] <= 6
        /\ ~Holds(messages, OwnTurn(u))
        /\ OutOfOrder(t)
        /\ length[t] > 6
        /\ Holds(messages, OwnTurn(t))
        /\ ~LostUserTurn(t)

\* The ways in which an answer of the service yields no reply text.
CallRaised(r) == r.raises
NoCandidates(r) == ~r.raises /\ r.choices = <<>>
ContentMissing(r) == ~r.raises /\ r.choices # <<>> /\ r.choices[1].none
NoCompletion(r) == CallRaised(r) \/ NoCandidates(r) \/ ContentMissing(r)

\* ------------------------------------------------------------ C11
\* C11: whichever way the completion is not obtained (the call raises, the
\* candidate list is empty, the first candidate has no content), the step
\* that takes the answer ends the request with a 500 and an error body and
\* leaves the transcript as it was; the request then holds no reply, and
\* the transcript is the list the service was handed, with no assistant
\* turn after the request's user turn.  A 500 has no other origin.
C11_FailuresCollapse ==
    /\ [](\A t \in Threads :
             /\ (answer[t] # <<>> /\ NoCompletion(answer[t][1]))
                    => /\ pc[t] = "done"
                       /\ resp[t].status = 500
                       /\ resp[t].key = "error"
                       /\ resp[t].body # <<>>
                       /\ bot_reply[t] = <<>>
                       /\ messages = ctx[t]
                       /\ Last(messages) = OwnTurn(t)
             /\ Responded(t, 500)
                    => answer[t] # <<>> /\ NoCompletion(answer[t][1]))
    /\ [][\A t \in Threads :
             (pc[t] = "L175" /\ pc'[t] # "L175" /\ NoCompletion(answer'[t][1]))
                 => /\ pc'[t] = "done"
                    /\ resp'[t].status = 500
                    /\ messages' = messages]_vars

\* A request was answered with a candidate that has no content, after an
\* earlier request had been answered with a reply.
C11_Witness ==
    \E t \in Threads :
        /\ Responded(t, 500)
        /\ ContentMissing(answer[t][1])
        /\ resp[t].body = <<"AttributeError">>
        /\ Len(messages) >= 4
        /\ messages[Len(messages) - 1].role = "assistant"
        /\ Last(messages) = OwnTurn(t)

\* Where a request is before its call, and where after the call's answer.
BeforeCall ==
    {"L168", "L168a", "L171", "L171a", "L172", "L172a", "L172b", "L172c",
     "L172d", "L177", "L177a"}
AfterReply == {"L184", "L184a"}

\* ------------------------------------------------------------ C12
\* C12: with requests handled one at a time, a request appends its user
\* turn, then trims, then calls, and appends the assistant turn only after
\* the call has answered: the transcript changes at the append of the user
\* turn (before any call), at the store of the trim (before any call) and
\* at the append of the assistant turn (after the answer) and nowhere else;
\* the list the service receives is the whole transcript of that moment,
\* which stays so while the call is out; it starts with the system turn,
\* has 2 to 6 turns and ends with the request's own user turn.
C12_PipelineOrder ==
    /\ [](\A t \in Threads :
             /\ pc[t] \in BeforeCall => calls[t] = 0 /\ answer[t] = <<>>
             /\ pc[t] \in BeforeCall \ {"L168", "L168a"} => Last(messages) = OwnTurn(t)
             /\ pc[t] \in {"L177", "L177a"} => Len(messages) <= 6
             /\ pc[t] = "L175" => ctx[t] = messages /\ answer[t] = <<>>
             /\ pc[t] \in AfterReply => ctx[t] = messages /\ answer[t] # <<>>
             /\ calls[t] > 0
                    => /\ ctx[t][1] = SystemTurn
                       /\ Len(ctx[t]) >= 2
                       /\ Len(ctx[t]) <= 6
                       /\ Last(ctx[t]) = OwnTurn(t))
    /\ [][\A t \in Threads :
             /\ (pc[t] = "L177a" /\ pc'[t] = "L175")
                    => ctx'[t] = messages /\ messages' = messages
             /\ (pc'[t] # pc[t] /\ messages' # messages)
                    => \/ /\ pc[t] = "L168a"
                          /\ messages' = Append(messages, OwnTurn(t))
                          /\ calls[t] = 0
                       \/ /\ pc[t] = "L172d"
                          /\ calls[t] = 0
                       \/ /\ pc[t] = "L184a"
                          /\ calls[t] = 1
                          /\ answer[t] # <<>>
                          /\ messages' = Append(messages, Turn("assistant", TextContent(bot_reply[t])))]_vars

\* The call of a request that trimmed 8 turns is out, with the 6 turns of
\* the transcript.
C12_Witness ==
    \E t \in Threads :
        /\ pc[t] = "L175"
        /\ length[t] = 8
        /\ Len(ctx[t]) = 6
        /\ ctx[t] = messages
        /\ ctx[t][1] = SystemTurn
        /\ Last(ctx[t]) = OwnTurn(t)

\* The call of t's request is out or has been answered with a reply, and
\* the request before it that called has failed.
CallsAfterFailure(t) == pc[t] \in {"L175", "L184", "L184a"} /\ unanswered # <<>>

\* ------------------------------------------------------------ C13
\* C13: with requests handled one at a time, when the latest request that
\* called the service failed, the list the next request that passes
\* validation calls the service with holds the failed request's user turn
\* as its last turn but one, directly before the new request's user turn,
\* whether the new request trimmed or not; nothing was appended in between.
C13_UnansweredTurnStays ==
    \A t \in Threads :
        CallsAfterFailure(t) =>
            /\ unanswered[1].role = "user"
            /\ Len(ctx[t]) >= 3
            /\ ctx[t][Len(ctx[t]) - 1] = unanswered[1]
            /\ Last(ctx[t]) = OwnTurn(t)
            /\ Len(history) >= 2
            /\ history[Len(history) - 1] = unanswered[1]
            /\ Last(history) = OwnTurn(t)

\* A request that follows a failed one has trimmed 7 turns and called: the
\* failed request's user turn, another message than its own, is the last
\* turn but one of the 6.
C13_Witness ==
    \E t \in Threads :
        /\ CallsAfterFailure(t)
        /\ length[t] = 7
        /\ Len(ctx[t]) = 6
        /\ ctx[t][5] = unanswered[1]
        /\ unanswered[1] # OwnTurn(t)
        /\ ctx[t][4].role = "assistant"

\* s is what l ends with: the last Len(s) elements of l, in l's order.
IsSuffix(s, l) ==
    /\ Len(s) <= Len(l)
    /\ \A i \in 1..Len(s) : s[i] = l[Len(l) - Len(s) + i]

\* ------------------------------------------------------------ C14
\* C14: with requests handled one at a time, in every reachable state the
\* turns after turn 0 are what the history of all appended user and
\* assistant turns ends with, in append order: turns leave the transcript
\* at the old end alone, none is reordered, doubled or missing in the middle
\* or at the new end.  Nothing leaves before the trim has something to
\* drop: a history of at most 5 turns is in the transcript whole, and the
\* transcript never holds fewer than the last 5 turns of the history.
C14_SlidingWindow ==
    /\ Len(messages) >= 1
    /\ IsSuffix(Tail(messages), history)
    /\ Len(history) <= KeepLast => Tail(messages) = history
    /\ Len(history) > KeepLast => Len(messages) > KeepLast

\* A second trim is over: the history has 9 turns, of which the transcript
\* holds the last 5 after turn 0.
C14_Witness ==
    \E t \in Threads :
        /\ JustTrimmed(t)
        /\ Len(history) = 9
        /\ Len(messages) = 6
        /\ Tail(messages) = SubSeq(history, 5, 9)
        /\ history[4] # history[5]

\* l is user, assistant, user, assistant, ...: it starts with a user turn
\* and the roles alternate.
Alternates(l) ==
    \A i \in 1..Len(l) :
        l[i].role = IF i % 2 = 1 THEN "user" ELSE "assistant"

\* A request has appended its user turn and not yet finished.
BeingServed(t) == pc[t] \in (BeforeCall \ {"L168", "L168a"}) \cup {"L175"} \cup AfterReply

\* No call has failed so far: every user turn ever appended has its
\* assistant turn right behind it, but for the turn of a request that is
\* still being served.
NoFailureSoFar ==
    /\ Alternates(history)
    /\ Len(history) % 2 = 1 => \E t \in Threads : BeingServed(t)

\* ------------------------------------------------------------ C15
\* C15: with requests handled one at a time, for as long as no call has
\* failed (which the first failed call ends for good, and nothing else
\* does): between requests the transcript is the system turn followed by
\* user and assistant turns in strict alternation, starting with a user
\* turn and ending with an assistant turn; line 172 is entered with 8 turns
\* and never otherwise, and its store drops turns 1 and 2, a user turn and
\* the assistant turn that answered it; the list a call is made with has a
\* user turn after the system turn.
C15_Alternation ==
    /\ [](NoFailureSoFar =>
             /\ AllIdle =>
                    /\ messages[1] = SystemTurn
                    /\ Alternates(Tail(messages))
                    /\ Len(messages) % 2 = 1
                    /\ Len(messages) > 1 => Last(messages).role = "assistant"
             /\ \A t \in Threads :
                    /\ pc[t] \in {"L172", "L172a", "L172b", "L172c", "L172d"}
                           => Len(messages) = 8
                    /\ calls[t] > 0 => ctx[t][2].role = "user" /\ Alternates(Tail(ctx[t])))
    /\ [][/\ ~NoFailureSoFar => ~NoFailureSoFar'
          /\ \A t \in Threads :
                (pc[t] = "L175" /\ pc'[t] = "done") => ~NoFailureSoFar'
          /\ (NoFailureSoFar /\ ~NoFailureSoFar')
                => \E t \in Threads : pc[t] = "L175" /\ pc'[t] = "done" /\ resp'[t].status = 500
          /\ NoFailureSoFar =>
                \A t \in Threads :
                    /\ (pc[t] = "L171a" /\ pc'[t] = "L177") => Len(messages) < 8
                    /\ (pc[t] = "L172d" /\ pc'[t] = "L177")
                           => /\ messages' = <<messages[1]>> \o SubSeq(messages, 4, 8)
                              /\ messages[2].role = "user"
                              /\ messages[3].role = "assistant"
                              /\ messages'[2].role = "user"]_vars

\* Five requests were answered with a reply, the fourth and the fifth after
\* a trim of 8 turns: the transcript is the system turn and three pairs.
C15_Witness ==
    \E t \in Threads :
        /\ Responded(t, 200)
        /\ NoFailureSoFar
        /\ Len(history) = 10
        /\ length[t] = 8
        /\ Roles(messages) = <<"system", "user", "assistant", "user", "assistant",
                               "user", "assistant">>

\* Where a request is between the append of its user turn and the store of
\* its trim.
BetweenAppendAndTrim ==
    {"L171", "L171a", "L172", "L172a", "L172b", "L172c", "L172d"}

\* ------------------------------------------------------------ C16
\* C16: with requests handled one at a time, whatever requests came, valid
\* or not, answered or failed, the transcript has at least 1 and at most 8
\* turns; it has 8 only while a request is between the append of its user
\* turn and the store of its trim; it has at most 6 when a request has
\* failed, and until the next user turn is appended; it has at most 7 when
\* a request was answered with a reply, and whenever no request is in
\* progress.
C16_LengthBounds ==
    /\ Len(messages) >= 1
    /\ Len(messages) <= 8
    /\ Len(messages) = 8 => \E t \in Threads : pc[t] \in BetweenAppendAndTrim
    /\ AllIdle => Len(messages) <= 7
    /\ (AllIdle /\ unanswered # <<>>) => Len(messages) <= 6
    /\ \A t \in Threads :
           /\ Responded(t, 500) => Len(messages) <= 6
           /\ Responded(t, 200) => Len(messages) <= 7
           /\ Responded(t, 400) => Len(messages) <= 7
           /\ (pc[t] \in {"L168", "L168a"} /\ unanswered # <<>>)
                  => Len(messages) <= 6

\* The transcript has 8 turns: a request that came after three answered
\* ones and a rejected one has appended its user turn and is about to store
\* its trim.
C16_Witness ==
    \E t \in Threads :
        /\ pc[t] = "L172d"
        /\ Len(messages) = 8
        /\ length[t] = 8
        /\ Len(head[t] \o tail[t]) = 6
        /\ nreq = 5

====
